---- MODULE Spec2Model ----
(***************************************************************************)
(* State machine of prerender-service.js: the /render, /clear-cache and    *)
(* /health handlers over the process-wide node-cache instance, with the    *)
(* awaits of the /render handler as interleaving points.                   *)
(*                                                                         *)
(* Time is in seconds.  node-cache keeps the expiry of an entry as the     *)
(* absolute time now + stdTTL and treats the entry as expired when that    *)
(* time is strictly smaller than the current time.                         *)
(***************************************************************************)
EXTENDS Integers, Sequences, FiniteSets, TLC

\* ---------------------------------------------------------------- constants
stdTTL == 3600
checkperiod == 600

\* Number of clock advances a behaviour may take; each advance is one TTL, a
\* multiple of checkperiod, so that "before expiry", "exactly at expiry" and
\* "past expiry" are all reached.
MaxClock == 2
ClockStep == stdTTL

\* Two request slots: two /render requests may overlap; a slot is reused by
\* the next request once its handler has ended.
Reqs == {1, 2}

\* Strings a caller may send as url.  The first two parse under new URL().
AbsoluteURLs == {"https://example.com", "https://x.com"}
UrlStrings == AbsoluteURLs \cup {"", "not-a-url"}

\* req.query / req.body: the url property is missing or is a string.
Params == {[has |-> FALSE, url |-> ""]} \cup {[has |-> TRUE, url |-> s] : s \in UrlStrings}
Bodies == {[has |-> FALSE, url |-> ""]} \cup
          {[has |-> TRUE, url |-> s] : s \in {"", "https://example.com"}}

\* What page.content() may return: the serialised doctype and document
\* element, the empty string for a document without a document element.
Markup == {"", "<html>FRESH</html>"}

\* The awaited calls of the try block, in order.
Steps == <<"launch", "newPage", "setUserAgent", "setViewport", "goto", "waitForTimeout", "content">>

StepIndex(s) == CHOOSE i \in 1..Len(Steps) : Steps[i] = s

InTry == {Steps[i] : i \in 1..Len(Steps)}

\* error.message of what an awaited call may throw.
Messages(s) ==
  IF s = "launch" THEN {"Failed to launch the browser process!"}
  ELSE IF s = "goto" THEN {"Navigation timeout of 30000 ms exceeded"}
  ELSE {"Protocol error"}

AllMessages == UNION {Messages(s) : s \in InTry}

VARIABLES
  alive,      \* the node process is running
  now,        \* Date.now(), in seconds
  cache,      \* node-cache data: key -> [v, t]
  pc,         \* per request: "idle" or the call the handler awaits
  url,        \* per request: const url (line 33)
  browser,    \* per request: let browser (line 57) and the state of its session
  res,        \* per request: the responses sent, in order
  launches,   \* per request: number of puppeteer.launch() calls
  lookups,    \* per request: number of cache.get() calls
  stores,     \* per request: number of cache.set() calls
  failed,     \* per request: the catch block ran
  lastStore,  \* per key: value and time of the latest cache.set() not followed by a clear
  reply,      \* last response of /clear-cache or /health
  overtaken   \* per request: its url, once a /clear-cache covering it ran while the
              \* request was rendering, for as long as no other request has stored
              \* under that url since and no later clear has removed what it stored

vars == <<alive, now, cache, pc, url, browser, res, launches, lookups, stores, failed, lastStore, reply, overtaken>>

\* ------------------------------------------------------------------- helpers
Empty == [k \in {} |-> 0]

Put(f, k, e) == [x \in DOMAIN f \cup {k} |-> IF x = k THEN e ELSE f[x]]

Remove(f, k) == [x \in DOMAIN f \ {k} |-> f[x]]

\* `prerender:${url}`, for each string a caller may send
Keys == [u \in UrlStrings |-> "prerender:" \o u]

cacheKey(u) == Keys[u]

\* !url
Falsy(p) == ~p.has \/ p.url = ""

\* a validation that accepts every non-empty string
new_URL_lenient(u) == FALSE

\* new URL(url) throws
new_URL_throws(u) == u \notin AbsoluteURLs

\* an expiry test that grants every entry a second TTL
Expired_late(e, t) == e.t # 0 /\ e.t + stdTTL < t

\* node-cache _check: the entry's ttl is too old
Expired(e, t) == e.t # 0 /\ e.t < t

\* cache.get(key): the value, or undefined for an unknown or expired key
cache_get(c, k, t) ==
  IF k \in DOMAIN c /\ ~Expired(c[k], t)
    THEN [found |-> TRUE, v |-> c[k].v]
    ELSE [found |-> FALSE, v |-> ""]

\* a get that also deletes every other expired entry
cache_after_get_sweep(c, k, t) ==
  [x \in {y \in DOMAIN c : ~Expired(c[y], t)} |-> c[x]]

\* a get that restarts the TTL of the entry it finds (sliding expiration)
cache_after_get_touch(c, k, t) ==
  IF k \in DOMAIN c
    THEN IF Expired(c[k], t) THEN Remove(c, k)
         ELSE Put(c, k, [v |-> c[k].v, t |-> t + stdTTL])
    ELSE c

\* cache.get(key) deletes the entry it finds expired (deleteOnExpire)
cache_after_get(c, k, t) ==
  IF k \in DOMAIN c /\ Expired(c[k], t) THEN Remove(c, k) ELSE c

\* a set that keeps the entry a key already has
cache_set_if_absent(c, k, v, t) ==
  IF k \in DOMAIN c THEN c ELSE Put(c, k, [v |-> v, t |-> t + stdTTL])

\* cache.set(key, value): value with expiry now + stdTTL
cache_set(c, k, v, t) == Put(c, k, [v |-> v, t |-> t + stdTTL])

\* a delete that leaves the entry in place
cache_del_noop(c, k) == c

\* a delete that drops every entry
cache_del_all(c, k) == Empty

\* cache.del(key)
cache_del(c, k) == Remove(c, k)

\* a flush that only drops the entries stored first (smallest expiry)
cache_flushAll_oldest(c) ==
  LET keep == {k \in DOMAIN c : \E o \in DOMAIN c : c[o].t < c[k].t} IN [k \in keep |-> c[k]]

\* a flushAll that leaves every entry in place
cache_flushAll_noop(c) == c

\* cache.flushAll()
cache_flushAll(c) == Empty

\* a sweep that already removes the entry whose expiry is the current time
cache_checkData_eager(c, t) ==
  LET keep == {k \in DOMAIN c : c[k].t = 0 \/ c[k].t > t} IN [k \in keep |-> c[k]]

\* the periodic _checkData pass: delete every expired entry
cache_checkData(c, t) ==
  LET keep == {k \in DOMAIN c : ~Expired(c[k], t)} IN [k \in keep |-> c[k]]

\* if (cachedHtml)
Truthy(g) == g.found /\ g.v # ""

\* a hit path that sends the cached markup with res.json
SendCachedHtml_json(m) ==
  [status |-> 200, type |-> "application/json", body |-> m, error |-> "", message |-> ""]

\* res.set('Content-Type', 'text/html').send(cachedHtml)
SendCachedHtml(m) ==
  [status |-> 200, type |-> "text/html", body |-> m, error |-> "", message |-> ""]

\* res.set('Content-Type', 'text/html').send(html)
SendHtml(m) ==
  [status |-> 200, type |-> "text/html", body |-> m, error |-> "", message |-> ""]

\* res.status(code).json({error, message})
SendJson(code, err, msg) ==
  [status |-> code, type |-> "application/json", body |-> "", error |-> err, message |-> msg]

\* res.json({message}) and res.json({status, cache_stats}): the status code of
\* the response (200 unless res.status() set one) and its message or status text
SendMessage(code, text) == [status |-> code, message |-> text]

NoReply == [status |-> 0, message |-> ""]

\* ---------------------------------------------------------------------- Init
Init ==
  /\ alive = TRUE
  /\ now = 0
  /\ cache = Empty
  /\ pc = [r \in Reqs |-> "idle"]
  /\ url = [r \in Reqs |-> ""]
  /\ browser = [r \in Reqs |-> "undefined"]
  /\ res = [r \in Reqs |-> <<>>]
  /\ launches = [r \in Reqs |-> 0]
  /\ lookups = [r \in Reqs |-> 0]
  /\ stores = [r \in Reqs |-> 0]
  /\ failed = [r \in Reqs |-> FALSE]
  /\ lastStore = Empty
  /\ reply = NoReply
  /\ overtaken = [r \in Reqs |-> ""]

\* ------------------------------------------------------------------- /render
\* Lines 32-60: the synchronous part of the handler, up to the first await.
render(r, q) ==
  /\ alive
  /\ pc[r] = "idle"
  /\ browser' = [browser EXCEPT ![r] = "undefined"]
  /\ stores' = [stores EXCEPT ![r] = 0]
  /\ failed' = [failed EXCEPT ![r] = FALSE]
  /\ overtaken' = [overtaken EXCEPT ![r] = ""]
  /\ UNCHANGED <<alive, now, lastStore, reply>>
  /\ IF Falsy(q)
       THEN /\ res' = [res EXCEPT ![r] = <<SendJson(400, "URL parameter is required", "")>>]
            /\ lookups' = [lookups EXCEPT ![r] = 0]
            /\ launches' = [launches EXCEPT ![r] = 0]
            /\ UNCHANGED <<cache, pc, url>>
     ELSE IF new_URL_throws(q.url)
       THEN /\ res' = [res EXCEPT ![r] = <<SendJson(400, "Invalid URL provided", "")>>]
            /\ lookups' = [lookups EXCEPT ![r] = 0]
            /\ launches' = [launches EXCEPT ![r] = 0]
            /\ UNCHANGED <<cache, pc, url>>
     ELSE LET cachedHtml == cache_get(cache, cacheKey(q.url), now) IN
            /\ cache' = cache_after_get(cache, cacheKey(q.url), now)
            /\ lookups' = [lookups EXCEPT ![r] = 1]
            /\ IF Truthy(cachedHtml)
                 THEN /\ res' = [res EXCEPT ![r] = <<SendCachedHtml(cachedHtml.v)>>]
                      /\ launches' = [launches EXCEPT ![r] = 0]
                      /\ UNCHANGED <<pc, url>>
                 ELSE /\ res' = [res EXCEPT ![r] = <<>>]
                      /\ url' = [url EXCEPT ![r] = q.url]
                      /\ launches' = [launches EXCEPT ![r] = 1]
                      /\ pc' = [pc EXCEPT ![r] = "launch"]

\* Lines 105-109: finally.  The handler ends, or awaits browser.close().
finally(r, b) ==
  IF b # "undefined"
    THEN /\ browser' = [browser EXCEPT ![r] = "closing"]
         /\ pc' = [pc EXCEPT ![r] = "close"]
         /\ url' = [url EXCEPT ![r] = ""]
    ELSE /\ browser' = [browser EXCEPT ![r] = b]
         /\ pc' = [pc EXCEPT ![r] = "idle"]
         /\ url' = [url EXCEPT ![r] = ""]

\* Lines 60-88: an awaited call other than page.content() resolves.
resolve(r) ==
  /\ alive
  /\ pc[r] \in InTry \ {"content"}
  /\ pc' = [pc EXCEPT ![r] = Steps[StepIndex(pc[r]) + 1]]
  /\ browser' = [browser EXCEPT ![r] = IF pc[r] = "launch" THEN "open" ELSE @]
  /\ UNCHANGED <<alive, now, cache, url, res, launches, lookups, stores, failed, lastStore, reply, overtaken>>

\* Lines 91-97 and 105-109: page.content() resolves with html.
content_resolve(r, html) ==
  /\ alive
  /\ pc[r] = "content"
  /\ cache' = cache_set(cache, cacheKey(url[r]), html, now)
  /\ lastStore' = Put(lastStore, cacheKey(url[r]), [v |-> html, at |-> now])
  /\ stores' = [stores EXCEPT ![r] = @ + 1]
  /\ res' = [res EXCEPT ![r] = Append(@, SendHtml(html))]
  /\ overtaken' = [o \in Reqs |->
                     IF o # r /\ overtaken[o] = url[r] THEN "" ELSE overtaken[o]]
  /\ finally(r, browser[r])
  /\ UNCHANGED <<alive, now, launches, lookups, failed, reply>>

\* a catch block that drops the request's cache entry
catch_evicts(r, message) ==
  /\ res' = [res EXCEPT ![r] = Append(@, SendJson(500, "Failed to prerender page", message))]
  /\ failed' = [failed EXCEPT ![r] = TRUE]
  /\ overtaken' = [overtaken EXCEPT ![r] = ""]
  /\ cache' = cache_del(cache, cacheKey(url[r]))
  /\ UNCHANGED <<lastStore, stores>>

\* a catch block that falls back to the content cached under the request's key
catch_fallback(r, message) ==
  /\ res' = [res EXCEPT ![r] =
               IF Truthy(cache_get(cache, cacheKey(url[r]), now))
                 THEN Append(@, SendHtml(cache_get(cache, cacheKey(url[r]), now).v))
                 ELSE Append(@, SendJson(500, "Failed to prerender page", message))]
  /\ failed' = [failed EXCEPT ![r] = TRUE]
  /\ overtaken' = [overtaken EXCEPT ![r] = ""]
  /\ UNCHANGED <<cache, lastStore, stores>>

\* Lines 99-104: catch.
catch(r, message) ==
  /\ res' = [res EXCEPT ![r] = Append(@, SendJson(500, "Failed to prerender page", message))]
  /\ failed' = [failed EXCEPT ![r] = TRUE]
  /\ overtaken' = [overtaken EXCEPT ![r] = ""]
  /\ UNCHANGED <<cache, lastStore, stores>>

\* a handler that launches a second browser when the first attempt throws
reject_retry(r, message) ==
  /\ alive
  /\ pc[r] \in InTry
  /\ message \in Messages(pc[r])
  /\ IF launches[r] < 2
       THEN /\ pc' = [pc EXCEPT ![r] = "launch"]
            /\ launches' = [launches EXCEPT ![r] = @ + 1]
            /\ browser' = [browser EXCEPT ![r] = "undefined"]
            /\ UNCHANGED <<alive, now, cache, url, res, lookups, stores, failed, lastStore, reply, overtaken>>
       ELSE /\ catch(r, message)
            /\ finally(r, browser[r])
            /\ UNCHANGED <<alive, now, launches, lookups, reply>>

\* Lines 60-91, 99-109: an awaited call of the try block throws.
reject(r, message) ==
  /\ alive
  /\ pc[r] \in InTry
  /\ message \in Messages(pc[r])
  /\ catch(r, message)
  /\ finally(r, browser[r])
  /\ UNCHANGED <<alive, now, launches, lookups, reply>>

\* Line 107: browser.close() resolves and the handler ends.
close_resolve(r) ==
  /\ alive
  /\ pc[r] = "close"
  /\ browser' = [browser EXCEPT ![r] = "closed"]
  /\ pc' = [pc EXCEPT ![r] = "idle"]
  /\ overtaken' = [overtaken EXCEPT ![r] = ""]
  /\ UNCHANGED <<alive, now, url, cache, res, launches, lookups, stores, failed, lastStore, reply>>

\* Line 107: browser.close() rejects.  Nothing catches it: the promise of the
\* async handler rejects, which the runtime either only reports or answers by
\* terminating the process (crash).  In a terminated process no handler runs
\* any more: the requests in flight stay where they are.
close_reject(r, crash) ==
  /\ alive
  /\ pc[r] = "close"
  /\ browser' = [browser EXCEPT ![r] = "closeFailed"]
  /\ pc' = [pc EXCEPT ![r] = "idle"]
  /\ alive' = ~crash
  /\ overtaken' = [overtaken EXCEPT ![r] = ""]
  /\ UNCHANGED <<now, url, cache, res, launches, lookups, stores, failed, lastStore, reply>>

\* -------------------------------------------------------------- /clear-cache
\* What a clear covering the urls in S means for the requests in flight.
Overtake(S) ==
  [r \in Reqs |->
     IF pc[r] \in InTry /\ url[r] \in S THEN url[r]
     ELSE IF overtaken[r] \in S THEN ""
     ELSE overtaken[r]]

\* Lines 113-124.
clear_cache(b) ==
  /\ alive
  /\ IF ~Falsy(b)
       THEN /\ cache' = cache_del(cache, cacheKey(b.url))
            /\ lastStore' = Remove(lastStore, cacheKey(b.url))
            /\ reply' = SendMessage(200, "Cache cleared for " \o b.url)
            /\ overtaken' = Overtake({b.url})
       ELSE /\ cache' = cache_flushAll(cache)
            /\ lastStore' = Empty
            /\ reply' = SendMessage(200, "All cache cleared")
            /\ overtaken' = Overtake(UrlStrings)
  /\ UNCHANGED <<alive, now, pc, url, browser, res, launches, lookups, stores, failed>>

\* ------------------------------------------------------------------- /health
\* Lines 27-29.
health ==
  /\ alive
  /\ reply' = SendMessage(200, "healthy")
  /\ UNCHANGED <<alive, now, cache, pc, url, browser, res, launches, lookups, stores, failed, lastStore, overtaken>>

\* ---------------------------------------------------------------- environment
\* The clock advances.
Tick ==
  /\ alive
  /\ now < MaxClock * ClockStep
  /\ now' = now + ClockStep
  /\ UNCHANGED <<alive, cache, pc, url, browser, res, launches, lookups, stores, failed, lastStore, reply, overtaken>>

\* Line 13: the checkperiod timer fires.
checkData ==
  /\ alive
  /\ now % checkperiod = 0
  /\ cache' = cache_checkData(cache, now)
  /\ UNCHANGED <<alive, now, pc, url, browser, res, launches, lookups, stores, failed, lastStore, reply, overtaken>>

Next ==
  \/ \E r \in Reqs, q \in Params : render(r, q)
  \/ \E r \in Reqs : resolve(r)
  \/ \E r \in Reqs, html \in Markup : content_resolve(r, html)
  \/ \E r \in Reqs, message \in AllMessages : reject(r, message)
  \/ \E r \in Reqs : close_resolve(r)
  \/ \E r \in Reqs, crash \in BOOLEAN : close_reject(r, crash)
  \/ \E b \in Bodies : clear_cache(b)
  \/ health
  \/ Tick
  \/ checkData

Spec == Init /\ [][Next]_vars

TypeOK ==
  /\ alive \in BOOLEAN
  /\ now \in 0..(MaxClock * ClockStep)
  /\ pc \in [Reqs -> {"idle", "close"} \cup InTry]
  /\ overtaken \in [Reqs -> UrlStrings]

\* ===================================================================== claims
\* What cache.get can observe: the entries that are not expired.
Visible(c, t) == [k \in {x \in DOMAIN c : ~(c[x].t # 0 /\ c[x].t < t)} |-> c[k]]

\* cache.get would find an entry under k that is not expired.
Fresh(c, k, t) == k \in DOMAIN c /\ ~(c[k].t # 0 /\ c[k].t < t)

WellFormed(q) == q.has /\ q.url \in AbsoluteURLs

\* C1: a /render for a valid URL whose key holds an unexpired entry m answers
\* 200 with body m, launches no browser and leaves the cache unchanged.
C1_CacheShortCircuitsRender ==
  [][\A r \in Reqs, q \in Params :
       (/\ pc[r] = "idle"
        /\ WellFormed(q)
        /\ cacheKey(q.url) \in DOMAIN Visible(cache, now)
        /\ render(r, q))
       => /\ res'[r] = <<SendHtml(cache[cacheKey(q.url)].v)>>
          /\ launches'[r] = 0
          /\ pc'[r] = "idle"
          /\ cache' = cache]_vars

\* C2: a fresh render answers 200 with the rendered markup m and stores m under
\* the URL's key; a later /render for that URL, before the TTL has elapsed and
\* with no clear-cache in between, answers m without launching a browser.
C2_FreshRenderPopulatesCache ==
  [][/\ \A r \in Reqs, html \in Markup :
          (pc[r] = "content" /\ content_resolve(r, html))
          => /\ res'[r] = <<SendHtml(html)>>
             /\ cacheKey(url[r]) \in DOMAIN cache'
             /\ cache'[cacheKey(url[r])].v = html
     /\ \A r \in Reqs, q \in Params :
          (/\ pc[r] = "idle"
           /\ WellFormed(q)
           /\ cacheKey(q.url) \in DOMAIN lastStore
           /\ now - lastStore[cacheKey(q.url)].at < stdTTL
           /\ render(r, q))
          => /\ res'[r] = <<SendHtml(lastStore[cacheKey(q.url)].v)>>
             /\ launches'[r] = 0]_vars

\* C3: a request whose render step throws answers 500 with {error, message},
\* message being the thrown error's message; it has stored nothing, and none
\* of its steps changes what the cache holds for any key.
C3_RenderFailureNoCacheMutation ==
  [][\A r \in Reqs :
       /\ \A message \in AllMessages :
            (pc[r] \in InTry /\ reject(r, message))
            => /\ res'[r] = <<[status |-> 500, type |-> "application/json", body |-> "",
                               error |-> "Failed to prerender page", message |-> message]>>
               /\ message \in Messages(pc[r])
               /\ stores[r] = 0 /\ stores'[r] = 0
               /\ cache' = cache
       /\ (pc'[r] # pc[r] /\ stores'[r] = stores[r])
            => Visible(cache', now') = Visible(cache, now)]_vars

C3_Witness ==
  \E r \in Reqs :
    /\ failed[r] /\ pc[r] = "idle"
    /\ Len(res[r]) = 1 /\ res[r][1].status = 500
    /\ res[r][1].message = "Navigation timeout of 30000 ms exceeded"
    /\ DOMAIN Visible(cache, now) # {}

\* C4: a /render whose url is missing, empty or not parseable answers 400,
\* does no cache.get, launches no browser and leaves the cache unchanged.
C4_InvalidInputRejected ==
  [][\A r \in Reqs, q \in Params :
       (pc[r] = "idle" /\ (~q.has \/ q.url \notin AbsoluteURLs) /\ render(r, q))
       => /\ Len(res'[r]) = 1 /\ res'[r][1].status = 400
          /\ lookups'[r] = 0
          /\ launches'[r] = 0
          /\ pc'[r] = "idle" /\ browser'[r] = "undefined"
          /\ cache' = cache]_vars

C4_Witness ==
  \E r \in Reqs :
    /\ pc[r] = "idle" /\ Len(res[r]) = 1 /\ res[r][1].status = 400
    /\ res[r][1].error = "Invalid URL provided"
    /\ lookups[r] = 0 /\ launches[r] = 0
    /\ cache # Empty

\* C5: a browser session that has been launched and not yet been closed
\* belongs to a request that is still in flight, which will close it.
C5_SessionReleased ==
  \A r \in Reqs :
    browser[r] \in {"open", "closing"} => alive /\ pc[r] \in InTry \cup {"close"}

\* C6: when browser.close() rejects, the response already sent stands, the
\* cache is as it was, and no other request is disturbed: the process goes on.
C6_ReleaseFailureIsSecondary ==
  [][\A r \in Reqs :
       (pc[r] = "close" /\ \E crash \in BOOLEAN : close_reject(r, crash))
       => /\ res' = res
          /\ cache' = cache
          /\ alive'
          /\ \A o \in Reqs \ {r} : pc'[o] = pc[o]]_vars

C8_IdempotentFullClear ==
  [][\A b \in Bodies :
       ((~b.has \/ b.url = "") /\ clear_cache(b))
       => /\ reply'.status = 200
          /\ \A k \in DOMAIN cache : ~cache_get(cache', k, now').found
          /\ DOMAIN cache' = {}
          /\ cache_flushAll(cache') = cache']_vars

C8_Witness ==
  /\ reply = SendMessage(200, "All cache cleared")
  /\ cache = Empty
  /\ \A r \in Reqs : stores[r] = 1 /\ pc[r] = "idle"

\* C9: POST /clear-cache with a url u removes the entry /render keeps for u,
\* is a no-op when there is none, and leaves every other entry (value and
\* expiry) as it was.
C9_SingleKeyDelete ==
  [][\A b \in Bodies :
       (b.has /\ b.url # "" /\ clear_cache(b))
       => /\ ~cache_get(cache', cacheKey(b.url), now').found
          /\ (cacheKey(b.url)) \notin DOMAIN cache'
          /\ \A k2 \in DOMAIN cache \ {cacheKey(b.url)} :
               k2 \in DOMAIN cache' /\ cache'[k2] = cache[k2]
          /\ DOMAIN cache' \subseteq DOMAIN cache
          /\ (cacheKey(b.url)) \notin DOMAIN cache => cache' = cache
          /\ cache_del(cache', cacheKey(b.url)) = cache']_vars

C9_Witness ==
  /\ reply = SendMessage(200, "Cache cleared for https://example.com")
  /\ "prerender:https://example.com" \notin DOMAIN cache
  /\ "prerender:https://x.com" \in DOMAIN cache
  /\ \A r \in Reqs : stores[r] = 1 /\ pc[r] = "idle"

\* C10: a request whose render failed answers with the 500 failure and never
\* with markup, whatever the cache holds under its key at that moment.
C10_NoFallbackOnFailure ==
  \A r \in Reqs :
    failed[r] => /\ Len(res[r]) = 1
                 /\ res[r][1].status = 500
                 /\ res[r][1].type = "application/json"
                 /\ res[r][1].body = ""
                 /\ lookups[r] = 1 /\ launches[r] = 1

C10_Witness ==
  \E r \in Reqs :
    /\ failed[r] /\ pc[r] = "close"
    /\ res[r][1].status = 500
    /\ \A u \in AbsoluteURLs :
         /\ cacheKey(u) \in DOMAIN cache
         /\ cache[cacheKey(u)].v # ""
         /\ cache[cacheKey(u)].t >= now

\* C11: a /render for a URL with nothing servable in the cache launches its
\* own render, also while another request renders the same URL; each request
\* answers with the markup it rendered, and its store overwrites the entry
\* whatever the entry held, so that the cache holds the markup of the store
\* made last.
C11_LastWriteWins ==
  [][/\ \A r \in Reqs :
          (/\ pc[r] = "idle"
           /\ now' = now /\ reply' = reply /\ lastStore' = lastStore
           /\ \A o \in Reqs \ {r} : pc'[o] = pc[o])
          => \A q \in Params :
               (WellFormed(q) /\ ~Fresh(cache, cacheKey(q.url), now) /\ render(r, q))
               => pc'[r] = "launch" /\ launches'[r] = 1 /\ res'[r] = <<>>
     /\ \A r \in Reqs, html \in Markup :
          (pc[r] = "content" /\ stores'[r] = 1 /\ content_resolve(r, html))
          => /\ res'[r] = <<SendHtml(html)>>
             /\ cacheKey(url[r]) \in DOMAIN cache'
             /\ cache'[cacheKey(url[r])] = [v |-> html, t |-> now + stdTTL]]_vars

\* Both requests rendered the same URL at the same time with different markup;
\* no clear has happened; the cache holds one of the two.
C11_Witness ==
  /\ reply = NoReply
  /\ \A r \in Reqs : pc[r] = "close" /\ stores[r] = 1 /\ Len(res[r]) = 1
  /\ res[1][1].body # res[2][1].body
  /\ Cardinality(DOMAIN lastStore) = 1
  /\ \E k \in DOMAIN cache : cache[k].v \in {res[1][1].body, res[2][1].body}

C13_NoInternalRetry ==
  \A r \in Reqs :
    /\ launches[r] <= 1
    /\ pc[r] \in InTry \cup {"close"} => launches[r] = 1 /\ lookups[r] = 1
    /\ failed[r] => /\ pc[r] \in {"close", "idle"}
                    /\ launches[r] = 1
                    /\ Len(res[r]) = 1
    /\ (pc[r] = "idle" /\ Len(res[r]) = 1 /\ stores[r] = 0 /\ ~failed[r])
         => launches[r] = 0

C13_Witness ==
  \E r \in Reqs :
    /\ failed[r] /\ pc[r] = "idle" /\ browser[r] = "closed"
    /\ launches[r] = 1
    /\ res[r][1].message = "Protocol error"

\* C14: the response of a request served from the cache and the response of a
\* request that rendered the same markup are the same: status 200,
\* Content-Type text/html, the markup as body.
C14_HitEqualsFresh ==
  \A r1 \in Reqs, r2 \in Reqs :
    (/\ pc[r1] = "idle" /\ lookups[r1] = 1 /\ launches[r1] = 0 /\ Len(res[r1]) = 1
     /\ stores[r2] = 1 /\ Len(res[r2]) = 1)
    => /\ res[r1][1].status = 200 /\ res[r1][1].type = "text/html"
       /\ res[r2][1].status = 200 /\ res[r2][1].type = "text/html"
       /\ res[r1][1].body = res[r2][1].body => res[r1] = res[r2]

C14_Witness ==
  \E r1 \in Reqs, r2 \in Reqs :
    /\ pc[r1] = "idle" /\ lookups[r1] = 1 /\ launches[r1] = 0 /\ Len(res[r1]) = 1
    /\ stores[r2] = 1 /\ Len(res[r2]) = 1
    /\ res[r1][1].body = "<html>FRESH</html>"
    /\ res[r2][1].body = "<html>FRESH</html>"

\* C15: the expiry of an entry is the time of the most recent store under its
\* key plus stdTTL, and its value is the markup of that store; cache hits and
\* /health calls, at whatever time they happen, leave both as stored.
C15_ExpiryFixedAtStore ==
  \A k \in DOMAIN cache :
    /\ k \in DOMAIN lastStore
    /\ cache[k].t = lastStore[k].at + stdTTL
    /\ cache[k].v = lastStore[k].v

C15_Witness ==
  /\ reply = SendMessage(200, "healthy")
  /\ \E r \in Reqs, k \in DOMAIN cache :
       /\ pc[r] = "idle" /\ lookups[r] = 1 /\ launches[r] = 0 /\ Len(res[r]) = 1
       /\ res[r][1].status = 200 /\ res[r][1].body = cache[k].v
       /\ DOMAIN cache = {k}
       /\ now = lastStore[k].at + stdTTL
       /\ cache[k].t = now

\* C16: what a lookup finds is decided by the stores and clears alone: at
\* every time, under every key, cache.get finds an entry exactly when the most
\* recent store under the key was not cleared and is no older than stdTTL, and
\* the entry holds the markup of that store, however often the periodic sweep
\* has run; the sweep removes no entry a lookup would still find.
C16_SweepNotNeeded ==
  \A u \in UrlStrings :
    LET k == cacheKey(u) IN
      /\ Fresh(cache, k, now)
           <=> (k \in DOMAIN lastStore /\ now <= lastStore[k].at + stdTTL)
      /\ Fresh(cache, k, now) => cache[k].v = lastStore[k].v

C16_Witness ==
  /\ pc = [r \in Reqs |-> "idle"]
  /\ stores[1] = 1 /\ Len(res[1]) = 1
  /\ lookups[2] = 0 /\ res[2] = <<>>
  /\ cache = Empty
  /\ \E k \in DOMAIN lastStore : now > lastStore[k].at + stdTTL

\* C17: every /render request sends exactly one response, a 400, a 200 or a
\* 500: never two, and a request that has not yet answered is still being
\* worked on by a running process, so that its answer will come.
C17_ExactlyOneOutcome ==
  \A r \in Reqs :
    /\ Len(res[r]) <= 1
    /\ Len(res[r]) = 1 => res[r][1].status \in {200, 400, 500}
    /\ pc[r] = "close" => Len(res[r]) = 1
    /\ (pc[r] \in InTry /\ res[r] = <<>>) => alive

\* C18 (as claimed): a /render request is never served markup from the cache
\* that was stored by a render which a /clear-cache covering its url overtook,
\* that is, which started before the clear and stored after it.
C18_ClearNotUndone ==
  [][\A r \in Reqs, q \in Params :
       (/\ pc[r] = "idle" /\ pc'[r] = "idle" /\ WellFormed(q) /\ render(r, q))
       => \A o \in Reqs :
            ~(pc[o] = "close" /\ stores[o] = 1 /\ overtaken[o] = q.url)]_vars

\* C18 (amended): the cache holds nothing that was stored before the latest
\* /clear-cache covering its key, so no /render is served such markup; the
\* markup of a render that the clear overtook is stored when the render
\* completes and stays the stored markup of its url.
C18_ClearNotUndone_Amended ==
  /\ \A k \in DOMAIN cache :
       k \in DOMAIN lastStore /\ cache[k].v = lastStore[k].v
  /\ \A o \in Reqs :
       (pc[o] = "close" /\ stores[o] = 1 /\ overtaken[o] # "")
       => /\ cacheKey(overtaken[o]) \in DOMAIN lastStore
          /\ lastStore[cacheKey(overtaken[o])].v = res[o][1].body

C18_Witness ==
  \E r \in Reqs, o \in Reqs :
    /\ pc[r] = "idle" /\ lookups[r] = 1 /\ launches[r] = 0 /\ Len(res[r]) = 1
    /\ pc[o] = "close" /\ stores[o] = 1 /\ overtaken[o] \in AbsoluteURLs
    /\ res[r][1].status = 200 /\ res[r][1].body = "<html>FRESH</html>"
    /\ res[o] = res[r]
    /\ DOMAIN cache = {cacheKey(overtaken[o])}
    /\ DOMAIN lastStore = DOMAIN cache
    /\ reply.status = 200 /\ reply.message # "healthy"
    /\ now = 0

\* C19: a step of a /render request for url u leaves the entry of every key
\* other than that of u as it was, present or absent, value and expiry; a
\* request answered without rendering (a hit or a 400) changes no entry, and
\* neither does GET /health.
C19_RenderTouchesOwnKey ==
  [][/\ \A r \in Reqs :
          /\ (pc[r] = "idle" /\ pc'[r] = "launch")
             => \A u \in UrlStrings \ {url'[r]} :
                  /\ cacheKey(u) \in DOMAIN cache <=> cacheKey(u) \in DOMAIN cache'
                  /\ cacheKey(u) \in DOMAIN cache => cache'[cacheKey(u)] = cache[cacheKey(u)]
          /\ (pc[r] = "idle" /\ pc'[r] = "idle" /\ res'[r] # res[r])
             => cache' = cache
          /\ (pc[r] # "idle" /\ pc'[r] # pc[r])
             => \A u \in UrlStrings \ {url[r]} :
                  /\ cacheKey(u) \in DOMAIN cache <=> cacheKey(u) \in DOMAIN cache'
                  /\ cacheKey(u) \in DOMAIN cache => cache'[cacheKey(u)] = cache[cacheKey(u)]
     /\ (reply' # reply /\ reply'.message = "healthy") => cache' = cache]_vars

C19_Witness ==
  /\ reply = SendMessage(200, "healthy")
  /\ DOMAIN cache = {cacheKey(u) : u \in AbsoluteURLs}
  /\ \E r \in Reqs :
       /\ pc[r] = "close" /\ stores[r] = 1
       /\ cache[cacheKey("https://x.com")].t = now + stdTTL
       /\ cache[cacheKey("https://example.com")].t = now
       /\ cache[cacheKey("https://x.com")].v # cache[cacheKey("https://example.com")].v

====
